---- MODULE Spec2Model ----
(***************************************************************************)
(* Token / session lifecycle of the gated IPTV server (src/server.js):     *)
(* the three in-memory stores, the periodic cleanup and the HTTP handlers  *)
(* that read or change them.  Time is in milliseconds since process start. *)
(***************************************************************************)
EXTENDS Integers, Sequences, FiniteSets, Bags, TLC

\* ---------------------------------------------------------------- constants
TOKEN_DURATION   == 3600000
SESSION_DURATION == 86400000
\* A cleanup period longer than the lifetime of a session.
CLEANUP_INTERVAL_Long == SESSION_DURATION + TOKEN_DURATION
CLEANUP_INTERVAL == 1800000
\* Period of the page's refresh timer, and the Max-Age of the cookie (seconds).
REFRESH_PERIOD   == 300000
MAX_AGE          == SESSION_DURATION \div 1000

\* ------------------------------------------------------------------- bounds
MaxTokens   == 1      \* tokens /generate-token issues in a run
MaxReq      == 2      \* POST /validate-token requests in flight at once
\* Session ids randomBytes(16) can still produce: one more than the tokens, so
\* that a second redemption of a token is never held back for lack of an id.
MaxSessions == MaxTokens + 1
MaxDepth    == 3      \* segments of a request path

\* Instants the clock is observed at: process start, one token duration
\* later, one session duration later, and both.
Instants == {0, TOKEN_DURATION, SESSION_DURATION, SESSION_DURATION + TOKEN_DURATION}
\* Milliseconds the clock may gain between two now() calls of one handler.
Drift == {0, 1}

TokenPool   == <<"a1", "a2", "a3", "a4">>
SessionPool == <<"s1", "s2", "s3", "s4">>
TokenValues == {TokenPool[i] : i \in 1..MaxTokens}
SessionIds  == {SessionPool[i] : i \in 1..MaxSessions}

\* ------------------------------------------------------- JavaScript values
\* Values a handler can hold in `token` / `sid`: a string, or null/undefined.
Undefined == "<undefined>"
\* A key every plain object inherits from Object.prototype.
ProtoKey  == "constructor"

\* obj[k] on a plain object {}: own number, inherited function, or undefined.
Num(n)  == [kind |-> "num",   n |-> n]
Undef   == [kind |-> "undef", n |-> 0]
ProtoFn == [kind |-> "obj",   n |-> 0]

Get(obj, k) ==
  IF k \in DOMAIN obj THEN Num(obj[k])
  ELSE IF k = ProtoKey THEN ProtoFn
  ELSE Undef

\* Boolean(v) for a looked-up value, and for a string / null / undefined.
ToBool(v)   == CASE v.kind = "num"   -> v.n # 0
                 [] v.kind = "undef" -> FALSE
                 [] v.kind = "obj"   -> TRUE
StrTruthy(s) == s # Undefined /\ s # ""

\* t <= v with a number on the left: false when v converts to NaN.
Leq(t, v) == v.kind = "num" /\ t <= v.n

EmptyStore == [k \in {} |-> 0]
Put(obj, k, v) == [x \in (DOMAIN obj) \cup {k} |-> IF x = k THEN v ELSE obj[x]]
Delete(obj, k) == [x \in (DOMAIN obj) \ {k} |-> obj[x]]

VARIABLES
  up,          \* the process is running (no uncaught exception so far)
  now,         \* Date.now()
  tokens,      \* token -> expiry
  sessions,    \* sessionId -> expiry
  usedTokens,  \* Set of consumed tokens
  minted,      \* number of tokens randomBytes(8) has produced so far
  made,        \* number of session ids randomBytes(16) has produced so far
  reqs,        \* bag of POST /validate-token requests between arrival and 'end'
  redeemed,    \* token -> number of successful redemptions answered
  ev,          \* the step just taken and the response it wrote
  client,      \* a browser: its cookie jar and the page it shows
  twin         \* a second server given the same requests, and the comparison

vars == <<up, now, tokens, sessions, usedTokens, minted, made, reqs, redeemed, ev,
          client, twin>>

\* The state of the server process.
Server ==
  [up |-> up, now |-> now, tokens |-> tokens, sessions |-> sessions,
   usedTokens |-> usedTokens, minted |-> minted, made |-> made, reqs |-> reqs,
   redeemed |-> redeemed]


\* ------------------------------------------------------------------ helpers
\* In the helpers below, t is the value the helper's call of now() returns.

\* createToken with `token` the hex string randomBytes(8) produced.
createToken(token, t) == Put(tokens, token, t + TOKEN_DURATION)

\* validateToken without the expiry comparison.
validateToken_NoExpiry(tk, t) ==
  /\ StrTruthy(tk)
  /\ ToBool(Get(tokens, tk))
  /\ tk \notin usedTokens

validateToken(tk, t) ==
  /\ StrTruthy(tk)
  /\ ToBool(Get(tokens, tk))
  /\ Leq(t, Get(tokens, tk))
  /\ tk \notin usedTokens

\* useToken that consumes nothing.
useToken_Forgotten(tk) == [usedTokens |-> usedTokens, tokens |-> tokens]

\* useToken: the pair <<usedTokens, tokens>> after the call.
useToken(tk) == [usedTokens |-> usedTokens \cup {tk}, tokens |-> Delete(tokens, tk)]

\* createSession giving the session the lifetime of a token.
createSession_Short(id, t) == Put(sessions, id, t + TOKEN_DURATION)

\* createSession with `id` the hex string randomBytes(16) produced.
createSession(id, t) == Put(sessions, id, t + SESSION_DURATION)

\* validateSession with now() < expiry.
validateSession_Strict(id, t) ==
  /\ StrTruthy(id)
  /\ ToBool(Get(sessions, id))
  /\ Get(sessions, id).kind = "num" /\ t < Get(sessions, id).n

\* validateSession without the expiry comparison.
validateSession_NoExpiry(id, t) ==
  /\ StrTruthy(id)
  /\ ToBool(Get(sessions, id))
  /\ Get(sessions, id).kind = "num"

\* validateSession that only looks for a cookie value.
validateSession_Truthy(id, t) == StrTruthy(id)

validateSession(id, t) ==
  /\ StrTruthy(id)
  /\ ToBool(Get(sessions, id))
  /\ Leq(t, Get(sessions, id))

\* refreshSession that adds the duration to the recorded expiry.
refreshSession_Additive(id, t) ==
  IF ~validateSession(id, t)
  THEN [ret |-> FALSE, sessions |-> sessions]
  ELSE [ret |-> TRUE,  sessions |-> Put(sessions, id, sessions[id] + SESSION_DURATION)]

\* refreshSession without its own validateSession call.
refreshSession_NoCheck(id, t) ==
  IF id \notin DOMAIN sessions
  THEN [ret |-> FALSE, sessions |-> sessions]
  ELSE [ret |-> TRUE,  sessions |-> Put(sessions, id, t + SESSION_DURATION)]

\* refreshSession: return value and the session store after the call.
refreshSession(id, t) ==
  IF ~validateSession(id, t)
  THEN [ret |-> FALSE, sessions |-> sessions]
  ELSE [ret |-> TRUE,  sessions |-> Put(sessions, id, t + SESSION_DURATION)]

\* ------------------------------------------------------------------ cookies
\* A Cookie header: absent, "sessionId=<v>", or one whose value is not valid
\* percent-encoding (decodeURIComponent throws URIError).
NoCookie      == [kind |-> "none", v |-> Undefined]
SidCookie(v)  == [kind |-> "sid",  v |-> v]
BadCookie     == [kind |-> "bad",  v |-> "%"]

parseCookies(h) ==
  CASE h.kind = "none" -> [threw |-> FALSE, sessionId |-> Undefined]
    [] h.kind = "sid"  -> [threw |-> FALSE, sessionId |-> h.v]
    [] h.kind = "bad"  -> [threw |-> TRUE,  sessionId |-> Undefined]

\* Session ids a client may present: issued or not, a token value, "", a
\* prototype key.
SidInputs     == SessionIds \cup TokenValues \cup {"", ProtoKey}
CookieHeaders == {NoCookie, BadCookie} \cup {SidCookie(v) : v \in SidInputs}

\* ------------------------------------------------------------ request body
\* A body is empty, a JSON object with or without a token member, a form with
\* or without a token field, or text that is neither.
EmptyBody     == [fmt |-> "empty", token |-> Undefined]
JsonBody(tk)  == [fmt |-> "json",  token |-> tk]
FormBody(tk)  == [fmt |-> "form",  token |-> tk]
GarbageBody   == [fmt |-> "text",  token |-> Undefined]

CT_JSON == "application/json"
CT_FORM == "application/x-www-form-urlencoded"
CT_TEXT == "text/plain"

\* body += d
Concat(body, d) == IF body = EmptyBody THEN d ELSE GarbageBody

\* JSON.parse(body || "{}").token : a throw is reported as threw.
JsonToken(body) ==
  CASE body.fmt = "empty" -> [threw |-> FALSE, token |-> Undefined]
    [] body.fmt = "json"  -> [threw |-> FALSE, token |-> body.token]
    [] OTHER              -> [threw |-> TRUE,  token |-> Undefined]

\* new URLSearchParams(body || "").get("token") : null when there is no field.
FormToken(body) == IF body.fmt = "form" THEN body.token ELSE Undefined

\* The try/catch block that extracts `token` from the accumulated body.
ParseToken(ctype, body) ==
  IF ctype = CT_FORM THEN FormToken(body)
  ELSE IF JsonToken(body).threw THEN Undefined ELSE JsonToken(body).token

\* --------------------------------------------------------- channel catalog
\* data/channels.json as the handler finds it: absent, not JSON, JSON that is
\* not an array, or an array whose elements are objects or null.
AllowedFields == {"name", "logo", "manifestUri", "category"}

ChFull == [name |-> "n1", logo |-> "l1", manifestUri |-> "m1", category |-> "c1",
           clearKey |-> "k1"]
ChPart == [name |-> "n2", clearKey |-> "k2", licence |-> "x2"]

ObjElem(o) == [null |-> FALSE, obj |-> o]
NullElem   == [null |-> TRUE,  obj |-> [f \in {} |-> ""]]

FileMissing    == [kind |-> "missing", items |-> <<>>]
FileBadJson    == [kind |-> "badjson", items |-> <<>>]
FileNotArray   == [kind |-> "object",  items |-> <<>>]
FileArray(its) == [kind |-> "array",   items |-> its]

Catalogs == { FileMissing, FileBadJson, FileNotArray,
              FileArray(<<ObjElem(ChFull)>>),
              FileArray(<<ObjElem(ChPart), ObjElem(ChFull)>>),
              FileArray(<<ObjElem(ChFull), NullElem>>) }

\* ch.f for a field the destructuring names.
Field(ch, f) == IF f \in DOMAIN ch THEN ch[f] ELSE Undefined

\* The record passed through as it is.
Destructure_Spread(ch) == ch

\* const { name, logo, manifestUri, category } = ch; return { ... }
Destructure(ch) == [name        |-> Field(ch, "name"),
                    logo        |-> Field(ch, "logo"),
                    manifestUri |-> Field(ch, "manifestUri"),
                    category    |-> Field(ch, "category")]

\* JSON.stringify of an object: members whose value is undefined are left out.
Stringify(o) == [f \in {g \in DOMAIN o : o[g] # Undefined} |-> o[f]]

\* The try block of /channels: threw, or the `safe` list as it is sent.
ReadChannels(file) ==
  IF \/ file.kind \in {"badjson", "object"}
     \/ \E i \in 1..Len(file.items) : file.items[i].null
  THEN [threw |-> TRUE, safe |-> <<>>]
  ELSE [threw |-> FALSE,
        safe  |-> [i \in 1..Len(file.items) |-> Stringify(Destructure(file.items[i].obj))]]

\* ---------------------------------------------------------------- responses
\* ev: the endpoint (or timer) that ran last, the token or session id it was
\* given, and the response: status, Location, the session id of Set-Cookie,
\* refreshSession's return value, the channels member of the body, the
\* location on disk of the file sent as the body (<<>>: none), and what the
\* handler found the catalog file to be ("-": it did not look).
Ev(ep, arg, status, loc, cookie) ==
  [ep |-> ep, arg |-> arg, status |-> status, loc |-> loc, cookie |-> cookie,
   ret |-> "-", data |-> FALSE, channels |-> <<>>, file |-> <<>>,
   catalog |-> "-"]

\* crypto.randomBytes never repeats a value: the k-th token and the k-th
\* session id are the k-th strings of the pools.
NewToken   == TokenPool[minted + 1]
NewSession == SessionPool[made + 1]

\* Successful redemptions of tk answered so far.
Redeemed(tk) == IF tk \in DOMAIN redeemed THEN redeemed[tk] ELSE 0

\* A request in flight: its content type, the chunks still to arrive and the
\* body accumulated so far.
Open(ctype, wire, body) == [ctype |-> ctype, wire |-> wire, body |-> body]

Init ==
  /\ up = TRUE
  /\ now = 0
  /\ tokens = EmptyStore
  /\ sessions = EmptyStore
  /\ usedTokens = {}
  /\ minted = 0
  /\ made = 0
  /\ reqs = EmptyBag
  /\ redeemed = EmptyStore
  /\ ev = Ev("start", Undefined, 0, "", "")
  /\ client = "-"
  /\ twin = "-"

\* The server with a browser that has no cookie and shows no page.
InitClient ==
  /\ Init!1 /\ Init!2 /\ Init!3 /\ Init!4 /\ Init!5
  /\ Init!6 /\ Init!7 /\ Init!8 /\ Init!9 /\ Init!10
  /\ client = [jar |-> "", jarUntil |-> 0, page |-> "none", expiry |-> 0,
               due |-> 0, refused |-> FALSE]
  /\ twin = "-"

\* Two servers after construction.
InitTwin ==
  /\ Init!1 /\ Init!2 /\ Init!3 /\ Init!4 /\ Init!5
  /\ Init!6 /\ Init!7 /\ Init!8 /\ Init!9 /\ Init!10
  /\ client = "-"
  /\ twin = [st |-> [up |-> TRUE, now |-> 0, tokens |-> EmptyStore,
                     sessions |-> EmptyStore, usedTokens |-> {}, minted |-> 0,
                     made |-> 0, reqs |-> EmptyBag, redeemed |-> EmptyStore],
             phase |-> "idle", loaded |-> 1, inp |-> <<>>,
             ev1 |-> Ev("start", Undefined, 0, "", "")]

\* An exception thrown in the request callback of endpoint ep is uncaught: the
\* process exits, no response is written, its memory and connections are gone.
Die(ep) ==
  /\ up' = FALSE
  /\ tokens' = EmptyStore
  /\ sessions' = EmptyStore
  /\ usedTokens' = {}
  /\ reqs' = EmptyBag
  /\ ev' = Ev("crash", ep, 0, "", "")
  /\ UNCHANGED <<now, minted, made, redeemed>>

\* The clock advances between events, to a later one of the instants at which
\* the server is observed.
Tick(t) ==
  /\ up
  /\ t \in Instants
  /\ t > now
  /\ now' = t
  /\ ev' = Ev("tick", Undefined, 0, "", "")
  /\ UNCHANGED <<up, tokens, sessions, usedTokens, minted, made, reqs, redeemed>>

\* GET /generate-token
GenerateToken(h) ==
  /\ up
  /\ minted < MaxTokens
  /\ IF parseCookies(h).threw THEN Die("/generate-token")
     ELSE /\ tokens' = createToken(NewToken, now)
          /\ minted' = minted + 1
          /\ ev' = Ev("/generate-token", NewToken, 200, "", "")
          /\ UNCHANGED <<up, now, sessions, usedTokens, made, reqs, redeemed>>

\* POST /validate-token, the request callback: registers the listeners.
ValidateArrive(h, ctype, body) ==
  /\ up
  /\ IF parseCookies(h).threw THEN Die("/validate-token")
     ELSE /\ reqs' = reqs (+) SetToBag({Open(ctype,
                                  IF body = EmptyBody THEN <<>> ELSE <<body>>,
                                  EmptyBody)})
          /\ ev' = Ev("/validate-token:request", Undefined, 0, "", "")
          /\ UNCHANGED <<up, now, tokens, sessions, usedTokens, minted, made, redeemed>>

\* POST /validate-token, the 'data' listener of request r.
ValidateData(r) ==
  /\ up
  /\ BagIn(r, reqs)
  /\ r.wire # <<>>
  /\ reqs' = (reqs (-) SetToBag({r}))
               (+) SetToBag({Open(r.ctype, Tail(r.wire), Concat(r.body, Head(r.wire)))})
  /\ ev' = Ev("/validate-token:data", Undefined, 0, "", "")
  /\ UNCHANGED <<up, now, tokens, sessions, usedTokens, minted, made, redeemed>>

\* The 'end' listener with createSession called ahead of the token check.
ValidateEnd_SessionFirst(r) ==
  /\ up
  /\ BagIn(r, reqs)
  /\ r.wire = <<>>
  /\ made < MaxSessions
  /\ sessions' = createSession(NewSession, now)
  /\ made' = made + 1
  /\ LET ctype == r.ctype
         token == ParseToken(ctype, r.body)
     IN IF ~validateToken(token, now)
        THEN /\ ev' = IF ctype = CT_FORM
                      THEN Ev("/validate-token", token, 302, "/?error=invalid", "")
                      ELSE Ev("/validate-token", token, 400, "", "")
             /\ UNCHANGED <<tokens, usedTokens, redeemed>>
        ELSE /\ usedTokens' = useToken(token).usedTokens
             /\ tokens' = useToken(token).tokens
             /\ redeemed' = Put(redeemed, token, Redeemed(token) + 1)
             /\ ev' = IF ctype = CT_FORM
                      THEN Ev("/validate-token", token, 302, "/iptv", NewSession)
                      ELSE Ev("/validate-token", token, 200, "", NewSession)
  /\ reqs' = reqs (-) SetToBag({r})
  /\ UNCHANGED <<up, now, minted>>

\* POST /validate-token, the 'end' listener of request r.
ValidateEnd(r) ==
  /\ up
  /\ BagIn(r, reqs)
  /\ r.wire = <<>>
  /\ LET ctype == r.ctype
         token == ParseToken(ctype, r.body)
     IN IF ~validateToken(token, now)
        THEN /\ ev' = IF ctype = CT_FORM
                      THEN Ev("/validate-token", token, 302, "/?error=invalid", "")
                      ELSE Ev("/validate-token", token, 400, "", "")
             /\ UNCHANGED <<tokens, sessions, usedTokens, made, redeemed>>
        ELSE /\ made < MaxSessions
             /\ usedTokens' = useToken(token).usedTokens
             /\ tokens' = useToken(token).tokens
             /\ sessions' = createSession(NewSession, now)
             /\ made' = made + 1
             /\ redeemed' = Put(redeemed, token, Redeemed(token) + 1)
             /\ ev' = IF ctype = CT_FORM
                      THEN Ev("/validate-token", token, 302, "/iptv", NewSession)
                      ELSE Ev("/validate-token", token, 200, "", NewSession)
  /\ reqs' = reqs (-) SetToBag({r})
  /\ UNCHANGED <<up, now, minted>>

\* GET /check-session, if validating also slid the expiry.
CheckSession_Sliding(h) ==
  /\ up
  /\ IF parseCookies(h).threw THEN Die("/check-session")
     ELSE LET sid == parseCookies(h).sessionId
          IN /\ ev' = IF ~validateSession(sid, now)
                      THEN Ev("/check-session", sid, 401, "", "")
                      ELSE Ev("/check-session", sid, 200, "", "")
             /\ sessions' = refreshSession(sid, now).sessions
             /\ UNCHANGED <<up, now, tokens, usedTokens, minted, made,
                            reqs, redeemed>>

\* GET /check-session, if a lapsed session were told apart from an unknown one.
CheckSession_TellsWhy(h) ==
  /\ up
  /\ IF parseCookies(h).threw THEN Die("/check-session")
     ELSE LET sid == parseCookies(h).sessionId
          IN /\ ev' = IF ~validateSession(sid, now)
                      THEN Ev("/check-session", sid,
                              IF sid \in DOMAIN sessions THEN 440 ELSE 401, "", "")
                      ELSE Ev("/check-session", sid, 200, "", "")
             /\ UNCHANGED <<up, now, tokens, sessions, usedTokens, minted, made,
                            reqs, redeemed>>

\* GET /check-session
CheckSession(h) ==
  /\ up
  /\ IF parseCookies(h).threw THEN Die("/check-session")
     ELSE LET sid == parseCookies(h).sessionId
          IN /\ ev' = IF ~validateSession(sid, now)
                      THEN Ev("/check-session", sid, 401, "", "")
                      ELSE Ev("/check-session", sid, 200, "", "")
             /\ UNCHANGED <<up, now, tokens, sessions, usedTokens, minted, made,
                            reqs, redeemed>>

\* POST /refresh-session; the clock reads d later in refreshSession than in
\* the handler's own validateSession.  The request is followed at the
\* instants and, without a gain of the clock, at the ticks of the page's timer.
RefreshSession(h, d) ==
  /\ up
  /\ d \in Drift
  /\ IF now \in Instants THEN TRUE ELSE d = 0 /\ now % REFRESH_PERIOD = 0
  /\ IF parseCookies(h).threw THEN Die("/refresh-session")
     ELSE LET sid == parseCookies(h).sessionId
          IN IF ~validateSession(sid, now)
             THEN /\ ev' = Ev("/refresh-session", sid, 400, "", "")
                  /\ UNCHANGED <<up, now, tokens, sessions, usedTokens, minted,
                                 made, reqs, redeemed>>
             ELSE /\ now' = now + d
                  /\ sessions' = refreshSession(sid, now + d).sessions
                  /\ ev' = [Ev("/refresh-session", sid, 200, "", "") EXCEPT
                              !.ret = IF refreshSession(sid, now + d).ret
                                      THEN "true" ELSE "false"]
                  /\ UNCHANGED <<up, tokens, usedTokens, minted, made, reqs,
                                 redeemed>>

\* GET /channels with the catalog file as it is on disk at that moment.
Channels(h, file) ==
  /\ up
  /\ file \in Catalogs
  /\ IF parseCookies(h).threw THEN Die("/channels")
     ELSE LET sid == parseCookies(h).sessionId
          IN /\ ev' =
                  IF ~validateSession(sid, now)
                  THEN Ev("/channels", sid, 401, "", "")
                  ELSE IF file.kind = "missing"
                  THEN [Ev("/channels", sid, 200, "", "") EXCEPT
                          !.data = TRUE, !.catalog = file.kind]
                  ELSE IF ReadChannels(file).threw
                  THEN [Ev("/channels", sid, 500, "", "") EXCEPT
                          !.catalog = file.kind]
                  ELSE [Ev("/channels", sid, 200, "", "") EXCEPT
                          !.data = TRUE, !.channels = ReadChannels(file).safe,
                          !.catalog = file.kind]
             /\ UNCHANGED <<up, now, tokens, sessions, usedTokens, minted, made,
                            reqs, redeemed>>

\* GET /iptv; htmlExists: public/myiptv.html is there.
Iptv(h, htmlExists) ==
  /\ up
  /\ htmlExists \in BOOLEAN
  /\ IF parseCookies(h).threw THEN Die("/iptv")
     ELSE LET sid == parseCookies(h).sessionId
          IN /\ ev' = IF ~validateSession(sid, now)
                      THEN Ev("/iptv", sid, 302, "/", "")
                      ELSE IF ~htmlExists
                      THEN Ev("/iptv", sid, 404, "", "")
                      ELSE Ev("/iptv", sid, 200, "", "")
             /\ UNCHANGED <<up, now, tokens, sessions, usedTokens, minted, made,
                            reqs, redeemed>>

\* GET / and GET /login: the login page.
LoginPage(h) ==
  /\ up
  /\ IF parseCookies(h).threw THEN Die("/")
     ELSE /\ ev' = Ev("/", parseCookies(h).sessionId, 200, "", "")
          /\ UNCHANGED <<up, now, tokens, sessions, usedTokens, minted, made,
                         reqs, redeemed>>

\* Any other request: a file of public/ (found) or the default 404.
Static(h, found) ==
  /\ up
  /\ found \in BOOLEAN
  /\ IF parseCookies(h).threw THEN Die("static")
     ELSE /\ ev' = Ev("static", parseCookies(h).sessionId,
                      IF found THEN 200 ELSE 404, "", "")
          /\ UNCHANGED <<up, now, tokens, sessions, usedTokens, minted, made,
                         reqs, redeemed>>

\* ------------------------------------------------------------ static files
\* A path is the sequence of its segments.  The directory of the server
\* script, its public directory, and the files on disk: two public pages, one
\* of them in a subdirectory, the catalog, the server script, and a page in a
\* sibling directory whose name starts with the public directory's name.
AppDir     == <<"app">>
PUBLIC_DIR == AppDir \o <<"public">>
Files == {PUBLIC_DIR \o <<"index.html">>, PUBLIC_DIR \o <<"data", "index.html">>,
          AppDir \o <<"data", "channels.json">>, AppDir \o <<"server.js">>,
          AppDir \o <<"public2", "index.html">>}
isFile(p) == p \in Files
\* A directory, with or without a trailing slash.
isDir(p) ==
  LET q == IF p # <<>> /\ p[Len(p)] = "" THEN SubSeq(p, 1, Len(p) - 1) ELSE p
  IN \E f \in Files : Len(f) > Len(q) /\ SubSeq(f, 1, Len(q)) = q
existsSync(p) == isFile(p) \/ isDir(p)

\* Segments a request path is made of, and the request paths.
Segments == {"..", "%2e%2e", ".", "data", "public2", "index.html",
             "channels.json", "server.js"}
RawPaths == UNION {[1..n -> Segments] : n \in 1..MaxDepth}

\* new URL(req.url, base).pathname: the parser drops single-dot segments and
\* lets a double-dot segment, percent-encoded or not, remove the segment
\* before it; a path ending in a dot segment ends with a slash (the segment "").
RECURSIVE UrlPath(_, _)
UrlPath(raw, acc) ==
  IF raw = <<>> THEN acc
  ELSE LET s    == Head(raw)
           last == Len(raw) = 1
       IN IF s \in {"..", "%2e%2e"}
          THEN UrlPath(Tail(raw),
                       (IF acc = <<>> THEN acc ELSE SubSeq(acc, 1, Len(acc) - 1))
                         \o (IF last THEN <<"">> ELSE <<>>))
          ELSE IF s \in {".", "%2e"}
          THEN UrlPath(Tail(raw), acc \o (IF last THEN <<"">> ELSE <<>>))
          ELSE UrlPath(Tail(raw), acc \o <<s>>)

\* path.normalize of an absolute path: "." and empty segments go, ".." removes
\* the segment before it (nothing at the root), a trailing slash stays.
\* Percent-encoded segments are ordinary names.
RECURSIVE Normalize(_, _)
Normalize(p, acc) ==
  IF p = <<>> THEN acc
  ELSE LET s == Head(p)
       IN IF s = ".."
          THEN Normalize(Tail(p), IF acc = <<>> THEN acc ELSE SubSeq(acc, 1, Len(acc) - 1))
          ELSE IF s = "." \/ (s = "" /\ Len(p) > 1)
          THEN Normalize(Tail(p), acc)
          ELSE Normalize(Tail(p), acc \o <<s>>)

pathJoin(dir, rel) == Normalize(dir \o rel, <<>>)

\* String.prototype.startsWith on two segment names.
NameStartsWith(s, prefix) == s = prefix \/ (s = "public2" /\ prefix = "public")

\* candidate.startsWith(dir) on the two paths written as strings.
startsWith(candidate, dir) ==
  /\ Len(candidate) >= Len(dir)
  /\ \A i \in 1..(Len(dir) - 1) : candidate[i] = dir[i]
  /\ NameStartsWith(candidate[Len(dir)], dir[Len(dir)])

\* The response carrying the file at p.
Sent(ep, raw, p) == [Ev(ep, raw, 200, "", "") EXCEPT !.file = p]

\* src/server.js, a GET that matched no route: the static branch, then the
\* default 404.
StaticFile(h, raw) ==
  /\ up
  /\ raw \in RawPaths
  /\ IF parseCookies(h).threw THEN Die("static")
     ELSE LET pathname  == UrlPath(raw, <<>>)
              rel       == pathname
              candidate == pathJoin(PUBLIC_DIR, rel)
          IN /\ ev' = IF pathname = <<"">>
                      THEN Ev("/", raw, 200, "", "")
                      ELSE IF startsWith(candidate, PUBLIC_DIR) /\ isFile(candidate)
                      THEN Sent("static", raw, candidate)
                      ELSE Ev("static", raw, 404, "", "")
             /\ UNCHANGED <<up, now, tokens, sessions, usedTokens, minted, made,
                            reqs, redeemed>>

\* src/unnamed/part_000, a request that matched no route.  Its parseCookies
\* decodes nothing and cannot throw; its serveStaticFile streams whatever
\* exists, and the stream of a directory fails with an error nobody handles.
StaticFile_part000(raw) ==
  /\ up
  /\ raw \in RawPaths
  /\ LET pathname == UrlPath(raw, <<>>)
         filePath == IF pathname = <<"">> THEN pathJoin(PUBLIC_DIR, <<"index.html">>)
                                          ELSE pathJoin(PUBLIC_DIR, pathname)
     IN IF existsSync(filePath) /\ ~isFile(filePath)
        THEN Die("part_000")
        ELSE /\ ev' = IF isFile(filePath)
                      THEN Sent("part_000", raw, filePath)
                      ELSE Ev("part_000", raw, 404, "", "")
             /\ UNCHANGED <<up, now, tokens, sessions, usedTokens, minted, made,
                            reqs, redeemed>>

\* src/unnamed/part_001, the password server: a request that matched no route.
StaticFile_part001(h, raw) ==
  /\ up
  /\ raw \in RawPaths
  /\ IF parseCookies(h).threw THEN Die("part_001")
     ELSE LET pathname == UrlPath(raw, <<>>)
              filePath == pathJoin(PUBLIC_DIR, pathname)
          IN /\ ev' = IF pathname = <<"">>
                      THEN Ev("part_001", raw, 200, "", "")
                      ELSE IF isFile(filePath)
                      THEN Sent("part_001", raw, filePath)
                      ELSE Ev("part_001", raw, 404, "", "")
             /\ UNCHANGED <<up, now, tokens, sessions, usedTokens, minted, made,
                            reqs, redeemed>>

\* src/unnamed/part_001, the catalog server: it joins req.url itself, which
\* no parser has normalised, and reads no cookie.
StaticFile_part001Catalog(raw) ==
  /\ up
  /\ raw \in RawPaths
  /\ LET filePath == pathJoin(PUBLIC_DIR, raw)
     IN ev' = IF isFile(filePath)
              THEN Sent("part_001/catalog", raw, filePath)
              ELSE Ev("part_001/catalog", raw, 404, "", "")
  /\ UNCHANGED <<up, now, tokens, sessions, usedTokens, minted, made, reqs,
                 redeemed>>

\* The setInterval callback.
SweepTokens(t)   == [k \in {x \in DOMAIN tokens : ~(tokens[x] < t)} |-> tokens[k]]
SweepSessions_Inclusive(t) == [k \in {x \in DOMAIN sessions : ~(sessions[x] <= t)} |-> sessions[k]]
SweepSessions(t) == [k \in {x \in DOMAIN sessions : ~(sessions[x] < t)} |-> sessions[k]]

\* The sweep without its third loop: consumed tokens are never forgotten.
Sweep_KeepsUsed ==
  /\ up
  /\ tokens' = SweepTokens(now)
  /\ sessions' = SweepSessions(now)
  /\ usedTokens' = usedTokens
  /\ ev' = Ev("sweep", Undefined, 0, "", "")
  /\ UNCHANGED <<up, now, minted, made, reqs, redeemed>>

Sweep ==
  /\ up
  /\ tokens' = SweepTokens(now)
  /\ sessions' = SweepSessions(now)
  /\ usedTokens' = {x \in usedTokens : x \in DOMAIN SweepTokens(now)}
  /\ ev' = Ev("sweep", Undefined, 0, "", "")
  /\ UNCHANGED <<up, now, minted, made, reqs, redeemed>>

\* ------------------------------------------------------------- the browser
\* The Cookie header the browser sends: the session cookie while its Max-Age
\* has not run out.
BrowserCookie ==
  IF client.jar # "" /\ now <= client.jarUntil THEN SidCookie(client.jar)
                                               ELSE NoCookie

\* The user fetches a token and posts it with the login form.
ClientGenerate == GenerateToken(NoCookie) /\ UNCHANGED <<client, twin>>

ClientPost(tk) ==
  /\ BagCardinality(reqs) = 0
  /\ ValidateArrive(BrowserCookie, CT_FORM, FormBody(tk))
  /\ UNCHANGED <<client, twin>>

ClientPostData(r) == ValidateData(r) /\ UNCHANGED <<client, twin>>

\* The response to the login: the browser stores the cookie of Set-Cookie
\* with its Max-Age.
ClientPostEnd(r) ==
  /\ ValidateEnd(r)
  /\ client' = IF ev'.cookie # ""
               THEN [client EXCEPT !.jar = ev'.cookie,
                                   !.jarUntil = now + MAX_AGE * 1000]
               ELSE client
  /\ UNCHANGED twin

\* The browser loads, or loads again, GET /iptv; the user does so at one of
\* the instants.
ClientLoad ==
  /\ client.page \in {"none", "open"}
  /\ client.jar # ""
  /\ now \in Instants
  /\ Iptv(BrowserCookie, TRUE)
  /\ client' = [client EXCEPT !.page = IF ev'.status = 200 THEN "loading" ELSE "login"]
  /\ UNCHANGED twin

\* The injected script starts: fetch /check-session, keep j.expiry, start the
\* two timers; on failure goLogin().
ClientCheck ==
  /\ client.page = "loading"
  /\ CheckSession(BrowserCookie)
  /\ client' = IF ev'.status = 200
               THEN [client EXCEPT !.page = "open",
                                   !.expiry = sessions[client.jar],
                                   !.due = now + REFRESH_PERIOD]
               ELSE [client EXCEPT !.page = "login"]
  /\ UNCHANGED twin

\* The 5-minute timer: POST /refresh-session; the response is not looked at.
ClientRefresh ==
  /\ client.page = "open"
  /\ client.due <= now
  /\ RefreshSession(BrowserCookie, 0)
  /\ client' = [client EXCEPT !.due = now + REFRESH_PERIOD,
                              !.refused = @ \/ ev'.status # 200]
  /\ UNCHANGED twin

\* The 1-second timer: d = expiry - Date.now(); if (d <= 0) goLogin().
ClientCountdown ==
  /\ client.page = "open"
  /\ client.expiry - now <= 0
  /\ client' = [client EXCEPT !.page = "expired"]
  /\ ev' = Ev("goLogin", client.jar, 0, "/", "")
  /\ UNCHANGED <<up, now, tokens, sessions, usedTokens, minted, made, reqs,
                 redeemed, twin>>

\* Five minutes pass with the page open, once both timers have run for the
\* current instant; the run is followed until the cookie has run out.
ClientTick ==
  /\ up
  /\ client.page = "open"
  /\ client.due > now
  /\ client.expiry - now > 0
  /\ now <= client.jarUntil
  /\ now' = now + REFRESH_PERIOD
  /\ ev' = Ev("tick", Undefined, 0, "", "")
  /\ UNCHANGED <<up, tokens, sessions, usedTokens, minted, made, reqs, redeemed,
                 client, twin>>

\* ------------------------------------------------- a server that never sweeps
\* Two servers are given the same requests, the same clock and the same
\* random values; only server 1 runs the cleanup callback.  One of them is in
\* up .. redeemed, the other in twin.st; a request is answered by the one, the
\* two change places, and it is answered by the other.
Swap ==
  /\ twin.phase \in {"idle", "first"}
  /\ up' = twin.st.up
  /\ now' = twin.st.now
  /\ tokens' = twin.st.tokens
  /\ sessions' = twin.st.sessions
  /\ usedTokens' = twin.st.usedTokens
  /\ minted' = twin.st.minted
  /\ made' = twin.st.made
  /\ reqs' = twin.st.reqs
  /\ redeemed' = twin.st.redeemed
  /\ twin' = [twin EXCEPT !.st = Server,
                          !.loaded = 3 - @,
                          !.phase = IF @ = "first" THEN "second" ELSE "idle"]
  /\ UNCHANGED <<ev, client>>

\* Step A with input inp, taken by the one server and then by the other;
\* ev1 keeps the response of the first.
Twice(A, inp) ==
  /\ twin.phase \in {"idle", "second"}
  /\ twin.phase = "second" => twin.inp = inp
  /\ A
  /\ twin' = IF twin.phase = "idle"
             THEN [twin EXCEPT !.phase = "first", !.inp = inp, !.ev1 = ev']
             ELSE [twin EXCEPT !.phase = "idle", !.inp = <<>>]
  /\ UNCHANGED client

\* The cleanup callback of server 1.
SweepOne ==
  /\ twin.phase = "idle"
  /\ twin.loaded = 1
  /\ Sweep
  /\ twin' = [twin EXCEPT !.ev1 = ev']
  /\ UNCHANGED client

\* -------------------------------------------------------------- the server
\* Cookie headers for the handlers that never look at a cookie's value.
AnyCookie == {NoCookie, BadCookie}

\* Requests a client sends to /validate-token: content type and body.
ValidateInputs ==
     {<<CT_JSON, JsonBody(tk)>> : tk \in TokenValues \cup {"", ProtoKey, Undefined}}
  \cup {<<CT_FORM, FormBody(tk)>> : tk \in {TokenPool[1], Undefined}}
  \cup {<<CT_TEXT, JsonBody(TokenPool[1])>>, <<CT_TEXT, GarbageBody>>,
        <<CT_JSON, GarbageBody>>, <<CT_JSON, EmptyBody>>,
        <<CT_JSON, FormBody(TokenPool[1])>>, <<CT_FORM, JsonBody(TokenPool[1])>>}

\* Token issuance and redemption, with at most cap requests in flight.
TokenStep(cap, inputs) ==
  \/ \E h \in AnyCookie : GenerateToken(h) /\ UNCHANGED <<client, twin>>
  \/ \E h \in AnyCookie, in \in inputs :
        /\ BagCardinality(reqs) < cap /\ ValidateArrive(h, in[1], in[2])
        /\ UNCHANGED <<client, twin>>
  \/ \E r \in BagToSet(reqs) : ValidateData(r) /\ UNCHANGED <<client, twin>>
  \/ \E r \in BagToSet(reqs) : ValidateEnd(r) /\ UNCHANGED <<client, twin>>

\* The endpoints behind the session cookie.
SessionStep(headers, files) ==
  \/ \E h \in headers : CheckSession(h) /\ UNCHANGED <<client, twin>>
  \/ \E h \in headers, d \in Drift :
        RefreshSession(h, d) /\ UNCHANGED <<client, twin>>
  \/ \E h \in headers, file \in files :
        Channels(h, file) /\ UNCHANGED <<client, twin>>
  \/ \E h \in headers, e \in BOOLEAN : Iptv(h, e) /\ UNCHANGED <<client, twin>>

PageStep ==
  \/ \E h \in AnyCookie : LoginPage(h) /\ UNCHANGED <<client, twin>>
  \/ \E h \in AnyCookie, f \in BOOLEAN : Static(h, f) /\ UNCHANGED <<client, twin>>

TimerStep ==
  \/ \E t \in Instants : Tick(t) /\ UNCHANGED <<client, twin>>
  \/ Sweep /\ UNCHANGED <<client, twin>>

\* The whole server, one redemption in flight at a time.
Next ==
  \/ TokenStep(1, {<<CT_JSON, JsonBody(tk)>> : tk \in TokenValues}
                  \cup {<<CT_FORM, FormBody(TokenPool[1])>>})
  \/ SessionStep(CookieHeaders, Catalogs)
  \/ PageStep
  \/ TimerStep

Spec == Init /\ [][Next]_vars

\* Issuance and redemption with concurrent requests and every kind of body.
NextRedeem ==
  \/ TokenStep(MaxReq, ValidateInputs)
  \/ TimerStep

SpecRedeem == Init /\ [][NextRedeem]_vars

\* Every reason a redemption or a session check is refused for, one request
\* in flight at a time: a token that is absent, unparsable, not issued,
\* expired or consumed, under each content type; a cookie that is absent,
\* empty, or names a session that is unknown or has lapsed.
RejectInputs ==
     {<<CT_JSON, JsonBody(tk)>> : tk \in TokenValues \cup {Undefined}}
  \cup {<<CT_FORM, FormBody(tk)>> : tk \in {TokenPool[1], Undefined}}
  \cup {<<CT_TEXT, GarbageBody>>}
RejectHeaders == {NoCookie} \cup {SidCookie(v) : v \in SessionIds \cup {""}}

NextReject ==
  \/ TokenStep(1, RejectInputs)
  \/ SessionStep(RejectHeaders, {FileMissing})
  \/ TimerStep

SpecReject == Init /\ [][NextReject]_vars

\* The static-file handler of each server entry point of the repository.
NextStatic ==
  \/ \E h \in AnyCookie, raw \in RawPaths :
        StaticFile(h, raw) /\ UNCHANGED <<client, twin>>
  \/ \E raw \in RawPaths :
        StaticFile_part000(raw) /\ UNCHANGED <<client, twin>>
  \/ \E h \in AnyCookie, raw \in RawPaths :
        StaticFile_part001(h, raw) /\ UNCHANGED <<client, twin>>
  \/ \E raw \in RawPaths :
        StaticFile_part001Catalog(raw) /\ UNCHANGED <<client, twin>>

\* One browser: login, the protected page and its timers, with the cleanup
\* callback running at any time.
NextClient ==
  \/ ClientGenerate
  \/ \E tk \in TokenValues : ClientPost(tk)
  \/ \E r \in BagToSet(reqs) : ClientPostData(r)
  \/ \E r \in BagToSet(reqs) : ClientPostEnd(r)
  \/ ClientLoad
  \/ ClientCheck
  \/ ClientRefresh
  \/ ClientCountdown
  \/ ClientTick
  \/ \E t \in Instants : client.page = "none" /\ Tick(t) /\ UNCHANGED <<client, twin>>
  \/ Sweep /\ UNCHANGED <<client, twin>>

SpecClient == InitClient /\ [][NextClient]_vars

\* The server with its cleanup callback next to one without it.
NextTwin ==
  \/ \E h \in AnyCookie : Twice(GenerateToken(h), <<"generate-token", h>>)
  \/ \E h \in AnyCookie, tk \in TokenValues :
        Twice(BagCardinality(reqs) = 0 /\ ValidateArrive(h, CT_JSON, JsonBody(tk)),
              <<"validate-token", h, tk>>)
  \/ \E r \in BagToSet(reqs) : Twice(ValidateData(r), <<"data", r>>)
  \/ \E r \in BagToSet(reqs) : Twice(ValidateEnd(r), <<"end", r>>)
  \/ \E h \in CookieHeaders : Twice(CheckSession(h), <<"check-session", h>>)
  \/ \E h \in CookieHeaders, d \in Drift :
        Twice(RefreshSession(h, d), <<"refresh-session", h, d>>)
  \/ \E h \in CookieHeaders : Twice(Channels(h, FileMissing), <<"channels", h>>)
  \/ \E h \in CookieHeaders : Twice(Iptv(h, TRUE), <<"iptv", h>>)
  \/ \E t \in Instants : Twice(Tick(t), <<"tick", t>>)
  \/ SweepOne
  \/ Swap

SpecTwin == InitTwin /\ [][NextTwin]_vars

\* ------------------------------------------- /channels of the entry points
\* The other entry points keep a session store of the same shape, filled by
\* their own login and read by their own validator; here they read the store
\* the model has.

\* src/unnamed/part_000, parseCookies: the header split at ";" and "=", nothing
\* decoded, so nothing thrown.
parseCookies_part000(h) ==
  [threw |-> FALSE, sessionId |-> IF h.kind = "none" THEN Undefined ELSE h.v]

\* JSON.stringify of the parsed file's elements, as they are; null has no member.
Unprojected(file) ==
  [i \in 1..Len(file.items) |->
     IF file.items[i].null THEN NullElem.obj ELSE Stringify(file.items[i].obj)]

\* src/unnamed/part_000, GET /channels: the parsed file is the answer, and a
\* file that is not JSON throws out of the request callback.
Channels_part000(h, file) ==
  /\ up
  /\ file \in Catalogs
  /\ LET sid == parseCookies_part000(h).sessionId
     IN IF validateSession(sid, now) /\ file.kind = "badjson"
        THEN Die("part_000/channels")
        ELSE /\ ev' =
                  IF ~validateSession(sid, now)
                  THEN Ev("part_000/channels", sid, 401, "", "")
                  ELSE [Ev("part_000/channels", sid, 200, "", "") EXCEPT
                          !.data = TRUE, !.channels = Unprojected(file),
                          !.catalog = file.kind]
             /\ UNCHANGED <<up, now, tokens, sessions, usedTokens, minted, made,
                            reqs, redeemed>>

\* src/unnamed/part_001, the password server, /channels with any method: no
\* existence test and no try block, so every failure of the read, the parse or
\* the projection throws out of the request callback.
Channels_part001(h, file) ==
  /\ up
  /\ file \in Catalogs
  /\ IF parseCookies(h).threw THEN Die("part_001/channels")
     ELSE LET sid == parseCookies(h).sessionId
          IN IF ~validateSession_Strict(sid, now)
             THEN /\ ev' = Ev("part_001/channels", sid, 401, "", "")
                  /\ UNCHANGED <<up, now, tokens, sessions, usedTokens, minted,
                                 made, reqs, redeemed>>
             ELSE IF file.kind = "missing" \/ ReadChannels(file).threw
             THEN Die("part_001/channels")
             ELSE /\ ev' = [Ev("part_001/channels", sid, 200, "", "") EXCEPT
                              !.data = TRUE,
                              !.channels = ReadChannels(file).safe,
                              !.catalog = file.kind]
                  /\ UNCHANGED <<up, now, tokens, sessions, usedTokens, minted,
                                 made, reqs, redeemed>>

\* src/unnamed/part_001, the catalog server, GET /channels: the Cookie header
\* is not read; arg records the session id the request carried.
Channels_part001Catalog(h, file) ==
  /\ up
  /\ file \in Catalogs
  /\ LET sid == parseCookies_part000(h).sessionId
     IN IF file.kind # "missing" /\ ReadChannels(file).threw
        THEN Die("part_001catalog/channels")
        ELSE /\ ev' = [Ev("part_001catalog/channels", sid, 200, "", "") EXCEPT
                         !.data = TRUE,
                         !.channels = IF file.kind = "missing" THEN <<>>
                                      ELSE ReadChannels(file).safe,
                         !.catalog = file.kind]
             /\ UNCHANGED <<up, now, tokens, sessions, usedTokens, minted, made,
                            reqs, redeemed>>

ChannelsEntryPoints ==
  {"/channels", "part_000/channels", "part_001/channels", "part_001catalog/channels"}

CatalogHeaders == {NoCookie, BadCookie} \cup {SidCookie(v) : v \in SessionIds \cup {""}}

\* Login on the main server, the clock, and /channels asked of every entry point.
NextCatalog ==
  \/ TokenStep(1, {<<CT_JSON, JsonBody(tk)>> : tk \in TokenValues})
  \/ TimerStep
  \/ \E h \in CatalogHeaders, file \in Catalogs :
        Channels(h, file) /\ UNCHANGED <<client, twin>>
  \/ \E h \in CatalogHeaders, file \in Catalogs :
        Channels_part000(h, file) /\ UNCHANGED <<client, twin>>
  \/ \E h \in CatalogHeaders, file \in Catalogs :
        Channels_part001(h, file) /\ UNCHANGED <<client, twin>>
  \/ \E h \in CatalogHeaders, file \in Catalogs :
        Channels_part001Catalog(h, file) /\ UNCHANGED <<client, twin>>

SpecCatalog == Init /\ [][NextCatalog]_vars

\* The server with a clock that keeps advancing and a cleanup timer that keeps
\* firing. Clients are active during the observed instants; Horizon is an
\* instant after every expiry they can have caused, by which they have stopped
\* asking.
Horizon == 3 * SESSION_DURATION

Elapse ==
  /\ up
  /\ now < Horizon
  /\ now' = Horizon
  /\ ev' = Ev("tick", Undefined, 0, "", "")
  /\ UNCHANGED <<up, tokens, sessions, usedTokens, minted, made, reqs, redeemed>>

FairHeaders == {NoCookie} \cup {SidCookie(v) : v \in SessionIds}

NextFair ==
  \/ now < Horizon /\ TokenStep(1, {<<CT_JSON, JsonBody(tk)>> : tk \in TokenValues})
  \/ \E h \in FairHeaders, d \in Drift :
        now < Horizon /\ RefreshSession(h, d) /\ UNCHANGED <<client, twin>>
  \/ TimerStep
  \/ Elapse /\ UNCHANGED <<client, twin>>

SpecFair ==
  /\ Init
  /\ [][NextFair]_vars
  /\ WF_vars(Elapse /\ UNCHANGED <<client, twin>>)
  /\ WF_vars(Sweep /\ UNCHANGED <<client, twin>>)

SpecStatic == Init /\ [][NextStatic]_vars

\* ------------------------------------------------------------------ claims
\* The wording of the specification, independent of the JavaScript above.
Missing(x)      == x = Undefined \/ x = ""
LiveToken(tk)   == tk \in DOMAIN tokens /\ now <= tokens[tk]
LiveSession(id) == id \in DOMAIN sessions /\ sessions[id] >= now
Issued(id)      == \E k \in 1..made : SessionPool[k] = id
Accepted(e)     == e.cookie # "" /\ (e.status = 200 \/ (e.status = 302 /\ e.loc = "/iptv"))
Rejected(e)     == e.cookie = "" /\ (e.status = 400 \/ (e.status = 302 /\ e.loc = "/?error=invalid"))

\* C1: for every token, over all interleavings of the requests presenting it,
\* at most one redemption succeeds; a request presenting a token that has
\* already been redeemed gets the invalid-or-expired response.
C1_AtMostOneRedemption ==
  /\ [](\A tk \in TokenValues : Redeemed(tk) <= 1)
  /\ [][(ev'.ep = "/validate-token" /\ Redeemed(ev'.arg) >= 1)
          => (Rejected(ev') /\ redeemed' = redeemed /\ sessions' = sessions)]_vars

\* C1 witness: two requests presented the same token, one was answered with
\* a session and the other has just been rejected.
C1_Witness ==
  /\ ev.ep = "/validate-token" /\ Rejected(ev)
  /\ Redeemed(ev.arg) = 1

\* C2: a redemption succeeds iff the token is present, is a key of the token
\* store, is not past its expiry and has not been consumed; otherwise it is
\* rejected, in particular when it has expired but is not yet swept.
C2_ValidIff ==
  [][ev'.ep = "/validate-token"
       => /\ Accepted(ev') <=> (/\ ~Missing(ev'.arg)
                                /\ LiveToken(ev'.arg)
                                /\ ev'.arg \notin usedTokens)
          /\ Accepted(ev') \/ Rejected(ev')]_vars

\* C2 witness: a token still in the store, past its expiry, was presented
\* and rejected.
C2_Witness ==
  /\ ev.ep = "/validate-token" /\ Rejected(ev)
  /\ ev.arg \in DOMAIN tokens /\ tokens[ev.arg] < now

\* Successful redemptions answered so far, over all tokens.
RECURSIVE SumOver(_, _)
SumOver(f, S) == IF S = {} THEN 0
                 ELSE LET x == CHOOSE y \in S : TRUE IN f[x] + SumOver(f, S \ {x})
TotalRedeemed == SumOver(redeemed, DOMAIN redeemed)

\* C3: sessions are created only by successful redemption: the number of
\* sessions created equals the number of successful redemptions, a success
\* adds exactly one new key to the session store, and no other step adds one.
C3_SessionsOnlyFromRedemption ==
  /\ [](made = TotalRedeemed)
  /\ [][/\ (ev'.ep = "/validate-token" /\ Accepted(ev'))
             => /\ ev'.cookie \notin DOMAIN sessions
                /\ DOMAIN sessions' = DOMAIN sessions \cup {ev'.cookie}
                /\ made' = made + 1
        /\ ~(ev'.ep = "/validate-token" /\ Accepted(ev'))
             => /\ DOMAIN sessions' \subseteq DOMAIN sessions
                /\ made' = made]_vars

\* C3 witness: a redemption has just succeeded and its session is in the store.
C3_Witness ==
  /\ ev.ep = "/validate-token" /\ Accepted(ev)
  /\ ev.cookie \in DOMAIN sessions /\ made = 1

\* C4: validateSession(id) is true iff id is non-empty, is a key of the
\* session store and its recorded expiry is >= the current time.
C4_ValidateSessionIff ==
  \A id \in SidInputs \cup {Undefined} :
     validateSession(id, now) <=> (~Missing(id) /\ LiveSession(id))

\* C4 witness: /check-session accepted a session at its expiry instant.
C4_Witness ==
  /\ ev.ep = "/check-session" /\ ev.status = 200
  /\ ev.arg \in DOMAIN sessions /\ sessions[ev.arg] = now

\* C5 as stated: validateSession is true before the recorded expiry instant
\* and false at that instant and after it.
C5_Original ==
  \A id \in DOMAIN sessions :
     /\ now < sessions[id] => validateSession(id, now)
     /\ now >= sessions[id] => ~validateSession(id, now)

\* C5 amended: validateSession is true right after creation and at every
\* instant up to and including the recorded expiry instant, and false at every
\* later instant (and once the session has been swept).
C5_ValidThroughExpiry ==
  /\ (ev.ep = "/validate-token" /\ Accepted(ev)) => validateSession(ev.cookie, now)
  /\ \A id \in SessionIds :
        Issued(id) => (validateSession(id, now)
                         <=> (id \in DOMAIN sessions /\ now <= sessions[id]))

\* C5 witness: the clock has reached a session's expiry instant and the
\* session still validates.
C5_Witness ==
  /\ ev.ep = "tick"
  /\ \E id \in DOMAIN sessions : sessions[id] = now /\ validateSession(id, now)

\* A session that was issued and is past its expiry, swept or not.
Lapsed(id) == \/ id \in DOMAIN sessions /\ sessions[id] < now
              \/ Issued(id) /\ id \notin DOMAIN sessions

\* C6: a request carrying a session whose expiry is earlier than the current
\* time is refused by every endpoint, swept or not: /check-session 401,
\* /refresh-session 400 with the expiry unchanged, /channels 401, /iptv 302 to /.
C6_LapsedIsNonexistent ==
  [][Lapsed(ev'.arg)
       => /\ ev'.ep = "/check-session"   => ev'.status = 401
          /\ ev'.ep = "/refresh-session" => ev'.status = 400 /\ sessions' = sessions
          /\ ev'.ep = "/channels"        => ev'.status = 401 /\ ~ev'.data
          /\ ev'.ep = "/iptv"            => ev'.status = 302 /\ ev'.loc = "/"]_vars

\* C6 witness: /refresh-session refused a session that is past its expiry and
\* still in the store.
C6_Witness ==
  /\ ev.ep = "/refresh-session" /\ ev.status = 400
  /\ ev.arg \in DOMAIN sessions /\ sessions[ev.arg] < now

\* C7: /channels sends channel data only to a request whose sessionId cookie
\* names a live session; otherwise (no cookie, unknown id, lapsed session, a
\* token value) it answers 401 without channel data.
C7_ChannelsNeedSession ==
  ev.ep = "/channels"
    => /\ ev.data => (~Missing(ev.arg) /\ LiveSession(ev.arg))
       /\ ~(~Missing(ev.arg) /\ LiveSession(ev.arg))
            => (ev.status = 401 /\ ~ev.data /\ ev.channels = <<>>)
       /\ ev.arg \in TokenValues => ev.status = 401

\* C7 witness: an issued, unredeemed token was sent as the session cookie and
\* refused.
C7_Witness ==
  /\ ev.ep = "/channels" /\ ev.status = 401
  /\ ev.arg \in DOMAIN tokens

\* C8: every channel object of a successful /channels response has only
\* fields of {name, logo, manifestUri, category}.
C8_ProjectionAllowList ==
  (ev.ep = "/channels" /\ ev.status = 200)
    => \A i \in 1..Len(ev.channels) : DOMAIN ev.channels[i] \subseteq AllowedFields

\* C8 witness: a catalog whose records carry clearKey and licence was served.
C8_Witness ==
  /\ ev.ep = "/channels" /\ ev.status = 200
  /\ Len(ev.channels) = 2
  /\ DOMAIN ev.channels[1] = {"name"}
  /\ DOMAIN ev.channels[2] = AllowedFields

\* C9 as stated: a successful refresh makes the new expiry the old expiry
\* plus SESSION_DURATION.
C9_Original ==
  [][(ev'.ep = "/refresh-session" /\ ev'.ret = "true")
       => /\ sessions'[ev'.arg] > sessions[ev'.arg]
          /\ sessions'[ev'.arg] = sessions[ev'.arg] + SESSION_DURATION]_vars

\* C9 amended: for a session that validates, refreshSession sets the recorded
\* expiry to the current time plus SESSION_DURATION; the expiry never
\* decreases, and it increases by the time elapsed since the expiry was set.
C9_SlidesToNowPlusDuration ==
  [][(ev'.ep = "/refresh-session" /\ ev'.ret = "true")
       => /\ sessions'[ev'.arg] = now' + SESSION_DURATION
          /\ sessions'[ev'.arg] >= sessions[ev'.arg]
          /\ sessions'[ev'.arg] - sessions[ev'.arg]
               = now' - (sessions[ev'.arg] - SESSION_DURATION)
          /\ \A id \in DOMAIN sessions \ {ev'.arg} : sessions'[id] = sessions[id]]_vars

\* C9 witness: a session was refreshed after the clock had advanced.
C9_Witness ==
  /\ ev.ep = "/refresh-session" /\ ev.ret = "true"
  /\ now > 0 /\ sessions[ev.arg] = now + SESSION_DURATION

\* C10: refreshSession on an id that is empty, absent or past its expiry
\* returns false and changes no store; a lapsed session is never revived.
C10_RefreshInvalidIsNoOp ==
  /\ [](\A id \in SidInputs \cup {Undefined} :
          (Missing(id) \/ ~LiveSession(id))
             => /\ refreshSession(id, now).ret = FALSE
                /\ refreshSession(id, now).sessions = sessions)
  /\ [][(ev'.ep = "/refresh-session" /\ ev'.ret # "true")
          => /\ sessions' = sessions
             /\ tokens' = tokens
             /\ usedTokens' = usedTokens]_vars
  /\ [][\A id \in DOMAIN sessions :
          (sessions[id] < now /\ id \in DOMAIN sessions') => sessions'[id] = sessions[id]]_vars

\* C10 witness: the session passed the handler's check at its expiry instant,
\* the clock moved on, and refreshSession returned false leaving it lapsed.
C10_Witness ==
  /\ ev.ep = "/refresh-session" /\ ev.ret = "false"
  /\ ev.arg \in DOMAIN sessions /\ sessions[ev.arg] < now

\* C11: the endpoints that only validate a session (GET /check-session,
\* GET /channels, GET /iptv) leave the token store, the session store (keys
\* and expiries) and the consumed-token set unchanged, whether the id they are
\* given is valid or not.
C11_ValidatorsChangeNothing ==
  [][ev'.ep \in {"/check-session", "/channels", "/iptv"}
       => /\ tokens' = tokens
          /\ sessions' = sessions
          /\ usedTokens' = usedTokens]_vars

\* C11 witness: /check-session accepted a session some time after it was
\* created, and its expiry is still the one set at creation.
C11_Witness ==
  /\ ev.ep = "/check-session" /\ ev.status = 200
  /\ now > 0 /\ sessions[ev.arg] < now + SESSION_DURATION

\* C12: a sweep removes from the token store and from the session store
\* exactly the entries whose expiry is strictly less than the time of the
\* sweep; an entry whose expiry is equal or later stays, with its expiry.
C12_SweepRemovesExactlyExpired ==
  [][ev'.ep = "sweep"
       => /\ DOMAIN tokens' = {k \in DOMAIN tokens : tokens[k] >= now}
          /\ DOMAIN sessions' = {k \in DOMAIN sessions : sessions[k] >= now}
          /\ \A k \in DOMAIN tokens' : tokens'[k] = tokens[k]
          /\ \A k \in DOMAIN sessions' : sessions'[k] = sessions[k]]_vars

\* C12 witness: a sweep ran at the very instant a session expires, and the
\* session is still there.
C12_Witness ==
  /\ ev.ep = "sweep"
  /\ \E id \in DOMAIN sessions : sessions[id] = now

\* The response to a refused redemption, by content type.
FailResponse(ctype) ==
  IF ctype = CT_FORM THEN Ev("/validate-token", Undefined, 302, "/?error=invalid", "")
                     ELSE Ev("/validate-token", Undefined, 400, "", "")

\* The response of each session-checking endpoint to a session it refuses.
Refusal(ep) ==
  CASE ep = "/check-session"   -> Ev(ep, Undefined, 401, "", "")
    [] ep = "/refresh-session" -> Ev(ep, Undefined, 400, "", "")
    [] ep = "/channels"        -> Ev(ep, Undefined, 401, "", "")
    [] ep = "/iptv"            -> Ev(ep, Undefined, 302, "/", "")

\* C14: the response to a refused redemption depends on the content type
\* only, not on whether the token was missing, never issued, expired or
\* consumed; the response of an endpoint to a refused session is the same
\* whether the cookie was missing, unknown or expired.
C14_RefusalRevealsNothing ==
  /\ [][(ev'.ep = "/validate-token" /\ ~Accepted(ev'))
          => \E r \in BagToSet(reqs) :
                /\ reqs' = reqs (-) SetToBag({r})
                /\ [ev' EXCEPT !.arg = Undefined] = FailResponse(r.ctype)]_vars
  /\ [][(/\ ev'.ep \in {"/check-session", "/refresh-session", "/channels", "/iptv"}
         /\ (Missing(ev'.arg) \/ ~LiveSession(ev'.arg)))
          => [ev' EXCEPT !.arg = Undefined] = Refusal(ev'.ep)]_vars

\* C14 witness: /check-session refused a session that is still in the store,
\* past its expiry.
C14_Witness ==
  /\ ev.ep = "/check-session" /\ ev.status = 401
  /\ ev.arg \in DOMAIN sessions /\ sessions[ev.arg] < now

\* C15: no request is fatal to the process: whatever its headers and body, the
\* handler answers it, and the stores held before it are still there after.
C15_NoRequestIsFatal ==
  /\ [](up /\ ev.ep # "crash")
  /\ [][(/\ ev'.ep \notin {"tick", "sweep"}
         /\ ~(ev'.ep = "/validate-token" /\ Accepted(ev')))
          => /\ DOMAIN tokens \subseteq DOMAIN tokens'
             /\ DOMAIN sessions \subseteq DOMAIN sessions']_vars

\* What the responses of a server are computed from: whether it runs, its
\* clock, the sessions that have not lapsed and the tokens still redeemable,
\* each with its expiry, and the random values drawn so far.
Observable(S) ==
  [up |-> S.up, now |-> S.now, minted |-> S.minted, made |-> S.made,
   sessions |-> [id \in {x \in DOMAIN S.sessions : S.sessions[x] >= S.now}
                    |-> S.sessions[id]],
   tokens |-> [tk \in {x \in DOMAIN S.tokens :
                          S.tokens[x] >= S.now /\ x \notin S.usedTokens}
                  |-> S.tokens[tk]]]

\* C13: given the same requests and clock, the server whose cleanup callback
\* runs at arbitrary points and the server whose callback never runs give the
\* same response to every request, and agree on everything a later response
\* is computed from.
C13_SweepIsInvisible ==
  twin.phase = "idle"
    => /\ ev = twin.ev1
       /\ Observable(Server) = Observable(twin.st)

\* C13 witness: both servers have refused a session that the one has swept
\* and the other still holds.
C13_Witness ==
  /\ twin.phase = "idle"
  /\ ev.ep = "/check-session" /\ ev.status = 401 /\ ev = twin.ev1
  /\ (ev.arg \in DOMAIN sessions) # (ev.arg \in DOMAIN twin.st.sessions)

\* C16: while the page served by GET /iptv stays open, refreshing every five
\* minutes, the server never refuses the client's session and the page never
\* sends the user to the login page because the session expired.
C16_PageKeepsSessionAlive ==
  /\ ~client.refused
  /\ client.page # "expired"

\* A location that is the public directory or below it.
InsidePublic(p) ==
  /\ Len(p) >= Len(PUBLIC_DIR)
  /\ SubSeq(p, 1, Len(PUBLIC_DIR)) = PUBLIC_DIR

\* C17: in every entry point the static-file handler sends a file only from
\* the public directory or below it, whatever the request path: never from a
\* parent, a sibling whose name starts with "public", or anywhere else.
C17_StaticStaysInPublic ==
  ev.file # <<>> => InsidePublic(ev.file)

\* The same for the entry points that take the path from the parsed URL:
\* src/server.js, part_000 and the password server of part_001.
StaticOfParsedUrlStaysInPublic ==
  (ev.file # <<>> /\ ev.ep # "part_001/catalog") => InsidePublic(ev.file)

\* C18: when POST /refresh-session answers 200 the session's expiry has been
\* set to the time of the request plus SESSION_DURATION, also when the clock
\* advances between the handler's check and refreshSession's; when it answers
\* 400 the session store is unchanged.
C18_Ok200MeansSlid ==
  [][ev'.ep = "/refresh-session"
       => /\ ev'.status = 200
               => \E t \in now..now' : sessions'[ev'.arg] = t + SESSION_DURATION
          /\ ev'.status = 400 => sessions' = sessions]_vars

C20_ExpiryIsLastWritePlusDuration ==
  /\ [](\A id \in DOMAIN sessions : sessions[id] - SESSION_DURATION \in 0..now)
  /\ [][\A id \in DOMAIN sessions' :
          /\ (id \notin DOMAIN sessions \/ sessions'[id] # sessions[id])
                => sessions'[id] = now' + SESSION_DURATION
          /\ id \in DOMAIN sessions => sessions'[id] >= sessions[id]]_vars
  /\ [][(ev'.ep = "/validate-token" /\ Accepted(ev'))
          => sessions'[ev'.cookie] = now' + SESSION_DURATION]_vars
  /\ [][(ev'.ep = "/refresh-session" /\ ev'.ret = "true")
          => sessions'[ev'.arg] = now' + SESSION_DURATION]_vars

\* C20 witness: a session created after the clock had advanced expires
\* SESSION_DURATION after its creation.
C20_Witness ==
  /\ ev.ep = "/validate-token" /\ Accepted(ev)
  /\ now > 0 /\ sessions[ev.cookie] = now + SESSION_DURATION

\* C21 as stated: token duration < session duration < sweep interval: a
\* token issued now expires before a session created now, which expires
\* before a cleanup timer armed now fires.
C21_Original ==
  /\ now + TOKEN_DURATION < now + SESSION_DURATION
  /\ now + SESSION_DURATION < now + CLEANUP_INTERVAL

\* C21 amended: the sweep interval is the shortest of the three durations,
\* sweep interval < token duration < session duration: a cleanup timer armed
\* now fires before a token issued now expires, which expires before a
\* session created now.
C21_SweepIntervalIsShortest ==
  /\ now + CLEANUP_INTERVAL < now + TOKEN_DURATION
  /\ now + TOKEN_DURATION < now + SESSION_DURATION

\* C21 witness: a sweep an hour after start, more than one sweep interval
\* in, finds the token issued at start at its expiry instant; a session
\* created then would last beyond it.
C21_Witness ==
  /\ ev.ep = "sweep"
  /\ now > CLEANUP_INTERVAL /\ now < SESSION_DURATION
  /\ \E tk \in DOMAIN tokens : tokens[tk] = now /\ now = TOKEN_DURATION

\* C22: for a request with a valid session, a catalog file that is missing,
\* is not JSON or is not a JSON array makes GET /channels answer 500 with no
\* channel data, with every store as it was and the process still running.
C22_CatalogFailureIs500 ==
  [][(ev'.ep = "/channels" /\ ev'.catalog \in {"missing", "badjson", "object"})
       => /\ ev'.status = 500 /\ ~ev'.data
          /\ tokens' = tokens /\ sessions' = sessions /\ usedTokens' = usedTokens
          /\ up']_vars

\* C23: with the clock advancing and the cleanup timer firing, every token in
\* the token store or the consumed-token set is eventually in neither, and every
\* session in the session store, once clients stop refreshing it, is eventually
\* not in it.
C23_MemoryIsReclaimed ==
  /\ \A tk \in TokenValues :
       (tk \in DOMAIN tokens \/ tk \in usedTokens)
         ~> (tk \notin DOMAIN tokens /\ tk \notin usedTokens)
  /\ \A s \in SessionIds : (s \in DOMAIN sessions) ~> (s \notin DOMAIN sessions)

\* C23 witness: a cleanup has just run on a server that issued a token, saw it
\* redeemed into a session, and now holds neither.
C23_Witness ==
  /\ up /\ ev.ep = "sweep"
  /\ \E tk \in TokenValues :
       Redeemed(tk) >= 1 /\ tk \notin DOMAIN tokens /\ tk \notin usedTokens
  /\ made > 0 /\ sessions = EmptyStore

\* C24: whichever entry point answers it, a /channels request that carries no
\* valid session is answered 401 with no channel data.
C24_NoSessionNoChannels ==
  (ev.ep \in ChannelsEntryPoints /\ ~validateSession(ev.arg, now))
    => (ev.status = 401 /\ ~ev.data /\ ev.channels = <<>>)

\* C25: whichever entry point answers it, every channel object in the answer
\* to /channels has no field outside name, logo, manifestUri, category.
C25_OnlyAllowedFieldsLeave ==
  ev.ep \in ChannelsEntryPoints
    => \A i \in 1..Len(ev.channels) : DOMAIN ev.channels[i] \subseteq AllowedFields

TypeOK ==
  /\ up \in BOOLEAN
  /\ now \in Nat
  /\ DOMAIN tokens \subseteq TokenValues
  /\ DOMAIN sessions \subseteq SessionIds
  /\ usedTokens \subseteq TokenValues

====
